---- MODULE Spec2Model ----
(***************************************************************************)
(* Model of the Acemap search pipeline: the remote search client and its   *)
(* client-side ranker (search.py), the knowledge-graph recall (recall.py), *)
(* the intent parser (intent.py) and the re-sort step of the page          *)
(* (app.py).  Strings are TLA+ strings, read as sequences of characters.   *)
(***************************************************************************)
EXTENDS Integers, Sequences, FiniteSets, TLC

VARIABLES
    corpus,     \* the upstream: search type -> keyword -> ranked list of items
    sa,         \* the activation of search_acemap
    requests,   \* every upstream request issued by the running operation
    caller,     \* who called search_acemap: "main", "search_all", "recall"
    al,         \* the activation of search_all
    rc,         \* the activation of search_with_recall
    kg,         \* KGManager.df, the table of triples
    app,        \* the page's work channel after its re-sort
    kq,         \* a direct call of find_related_concepts
    ip          \* a call of IntentParser.parse

vars == <<corpus, sa, requests, caller, al, rc, kg, app, kq, ip>>

-----------------------------------------------------------------------------
(* Python values *)

\* Python's None, as a value of the type of the strings it is compared with
None == "None"

\* the truth value Python gives a string or None
Truthy(v) == v # None /\ v # ""

Min(a, b) == IF a < b THEN a ELSE b
Max(a, b) == IF a > b THEN a ELSE b

\* the characters the model's strings are made of, in code point order
CodePoints == " !,-.0123456789?ABCDEFGHIJKLMNOPQRSTUVWXYZ_abcdefghijklmnopqrstuvwxyz"

CharAt(s, i) == SubSeq(s, i, i)

Ord(c) == CHOOSE i \in 1..Len(CodePoints) : CharAt(CodePoints, i) = c

\* str < str: lexicographic by code point
StrLess(a, b) ==
    \E k \in 0..Min(Len(a), Len(b)) :
        /\ \A i \in 1..k : CharAt(a, i) = CharAt(b, i)
        /\ \/ k = Len(a) /\ k < Len(b)
           \/ k < Len(a) /\ k < Len(b) /\ Ord(CharAt(a, k + 1)) < Ord(CharAt(b, k + 1))

UpperCase == "ABCDEFGHIJKLMNOPQRSTUVWXYZ"
LowerCase == "abcdefghijklmnopqrstuvwxyz"

LowerOf ==
    [c \in {CharAt(UpperCase, i) : i \in 1..Len(UpperCase)} |->
        CharAt(LowerCase, CHOOSE i \in 1..Len(UpperCase) : CharAt(UpperCase, i) = c)]

LowerChar(c) == IF c \in DOMAIN LowerOf THEN LowerOf[c] ELSE c

\* str.lower()
RECURSIVE Lower(_)
Lower(s) == IF s = "" THEN "" ELSE LowerChar(CharAt(s, 1)) \o Lower(Tail(s))

\* the whitespace of the model's strings
IsSpace(c) == c = " "

\* str.strip()
Strip(s) ==
    LET inked == {i \in 1..Len(s) : ~IsSpace(CharAt(s, i))}
    IN  IF inked = {} THEN ""
        ELSE SubSeq(s, CHOOSE i \in inked : \A j \in inked : i <= j,
                       CHOOSE i \in inked : \A j \in inked : i >= j)

\* sub in s
Contains(s, sub) ==
    \E i \in 1..(Len(s) - Len(sub) + 1) : SubSeq(s, i, i + Len(sub) - 1) = sub

\* the distinct elements of a list, in the order of their first occurrence
RECURSIVE Distinct(_)
Distinct(s) ==
    IF s = <<>> THEN <<>>
    ELSE LET rest == Distinct(SubSeq(s, 1, Len(s) - 1))
             last == s[Len(s)]
         IN  IF \E i \in DOMAIN rest : rest[i] = last THEN rest ELSE Append(rest, last)

\* dict.get(field, default)
Get(item, field, default) == IF field \in DOMAIN item THEN item[field] ELSE default

\* the concatenation of a sequence of lists
RECURSIVE Flatten(_)
Flatten(ss) == IF ss = <<>> THEN <<>> ELSE Head(ss) \o Flatten(Tail(ss))

\* key a orders strictly before key b: numbers or strings, and the other
\* way round under reverse
KeyBefore(a, b, numeric, reverse) ==
    IF numeric THEN (IF reverse THEN b < a ELSE a < b)
    ELSE (IF reverse THEN StrLess(b, a) ELSE StrLess(a, b))

\* list.sort(key=..., reverse=...): the stable sort.  keys[i] is the key of
\* s[i]; items of equal key keep the order they had (Python keeps it under
\* reverse=True as well)
StableSort(s, keys, numeric, reverse) ==
    LET K == {keys[i] : i \in DOMAIN s}
        rank(k) == Cardinality({h \in K : KeyBefore(h, k, numeric, reverse)})
        group(p) == LET k == CHOOSE k \in K : rank(k) = p - 1
                        at == SelectSeq([i \in DOMAIN s |-> i], LAMBDA i : keys[i] = k)
                    IN  [j \in DOMAIN at |-> s[at[j]]]
    IN  Flatten([p \in 1..Cardinality(K) |-> group(p)])

\* list[start:end] for 0 <= start <= end
Slice(s, start, end) == SubSeq(s, start + 1, Min(end, Len(s)))

-----------------------------------------------------------------------------
(* The upstream API *)

ENDPOINTS == {"work", "author", "institution"}

\* the ways one upstream request fails: the transport (requests.get),
\* raise_for_status(), response.json()
Failures == {"ConnectionError", "HTTPError", "JSONDecodeError"}

\* what the upstream holds for a search type and a keyword
Lookup(search_type, keyword) ==
    IF keyword \in DOMAIN corpus[search_type] THEN corpus[search_type][keyword] ELSE <<>>

\* the body of a successful response: the requested page of the matches
response_json(search_type, params) ==
    LET matches == Lookup(search_type, params.keyword)
    IN  [results |-> Slice(matches, (params.page - 1) * params.size,
                           params.page * params.size),
         meta |-> [count |-> Len(matches)]]

-----------------------------------------------------------------------------
(* search.py: build_params and search_acemap *)

build_params(search_type, keyword, page, size, order, sort) ==
    LET params == [keyword |-> keyword, page |-> page, size |-> size]
        ordered == IF search_type = "work" THEN params @@ ("order" :> order) ELSE params
    IN  IF search_type = "work" /\ Truthy(sort) THEN ordered @@ ("sort" :> sort) ELSE ordered

max_page_size == 100

\* a ranker that forgets the cap of 500
TargetCountUncapped(page, size) == Max(page * size, 200)

\* target_count of the client-side ranker
TargetCount(page, size) ==
    LET target_count == Max(page * size, 200)
    IN  IF target_count > 500 THEN 500 ELSE target_count

\* a local that holds nothing yet
Unset == [unset |-> TRUE]

\* no call of search_acemap is running
NoCall ==
    [pc |-> "idle", search_type |-> "", keyword |-> "", page |-> 0, size |-> 0,
     order |-> "", sort |-> None, target_count |-> 0, all_results |-> <<>>,
     current_page |-> 0, data |-> Unset, result |-> Unset, error |-> ""]

\* search_acemap up to its first request: the type check and the choice of
\* the ranking path ("loop") or the default path ("default")
search_acemap(search_type, keyword, page, size, order, sort) ==
    LET args == [NoCall EXCEPT !.search_type = search_type, !.keyword = keyword,
                               !.page = page, !.size = size, !.order = order,
                               !.sort = sort]
    IN  IF search_type \notin ENDPOINTS
        THEN [args EXCEPT !.pc = "raised", !.error = "ValueError"]
        ELSE IF search_type = "work" /\ Truthy(sort)
        THEN [args EXCEPT !.pc = "loop", !.target_count = TargetCount(page, size),
                          !.current_page = 1]
        ELSE [args EXCEPT !.pc = "default"]

\* a ranker that answers a failure with the pages it has gathered
RaisedKeepsPartial(a, message) ==
    [NoCall EXCEPT !.pc = "returned", !.result = [results |-> a.all_results],
                   !.search_type = a.search_type, !.keyword = a.keyword,
                   !.page = a.page, !.size = a.size, !.order = a.order,
                   !.sort = a.sort]

\* an exception leaves search_acemap: its locals are gone
Raised(a, message) ==
    [NoCall EXCEPT !.pc = "raised", !.error = message, !.search_type = a.search_type,
                   !.keyword = a.keyword, !.page = a.page, !.size = a.size,
                   !.order = a.order, !.sort = a.sort]

Returned(a, value) ==
    [NoCall EXCEPT !.pc = "returned", !.result = value, !.search_type = a.search_type,
                   !.keyword = a.keyword, !.page = a.page, !.size = a.size,
                   !.order = a.order, !.sort = a.sort]

Sent(search_type, params, outcome) ==
    [endpoint |-> search_type, params |-> params, outcome |-> outcome]

\* a paging loop that goes on whatever it has gathered
LoopGuardAlways(a) == TRUE

\* the while condition of the paging loop
LoopGuard(a) == Len(a.all_results) < a.target_count

\* one pass of the paging loop after a successful request
LoopBody(a, data) ==
    LET page_results == Get(data, "results", <<>>)
        extended == a.all_results \o page_results
    IN  IF page_results = <<>>
        THEN [a EXCEPT !.data = data, !.pc = "rank"]
        ELSE IF Len(page_results) < max_page_size
        THEN [a EXCEPT !.data = data, !.all_results = extended, !.pc = "rank"]
        ELSE LET next == [a EXCEPT !.data = data, !.all_results = extended,
                                   !.current_page = a.current_page + 1]
             IN  [next EXCEPT !.pc = IF LoopGuard(next) THEN "loop" ELSE "rank"]

\* a paging loop that forwards the caller's order and sort upstream
LoopParamsForwarded(a) ==
    build_params(a.search_type, a.keyword, a.current_page, max_page_size, a.order, a.sort)

\* the params of a request of the paging loop
LoopParams(a) ==
    build_params(a.search_type, a.keyword, a.current_page, max_page_size, "desc", None)

\* one request of the paging loop
RankFetch ==
    /\ sa.pc = "loop"
    /\ LoopGuard(sa)
    /\ \E outcome \in {"ok"} \cup Failures :
        /\ requests' = Append(requests, Sent(sa.search_type, LoopParams(sa), outcome))
        /\ sa' = IF outcome = "ok"
                 THEN LoopBody(sa, response_json(sa.search_type, LoopParams(sa)))
                 ELSE Raised(sa, outcome)
    /\ UNCHANGED <<corpus, caller, al, rc, kg, app, kq, ip>>

\* v or 0, for a count, a string or None
OrZero(v) == IF ToString(v) \in {ToString(None), ToString(""), ToString(0)} THEN 0 ELSE v

\* lambda x: x.get('cited_by_count', 0) or 0
cited_key(x) == OrZero(Get(x, "cited_by_count", 0))

\* a date key whose sentinels are the other way round
date_key_swapped(x, reverse) ==
    LET d == Get(x, "publication_date", None)
    IN  IF Truthy(d) THEN d ELSE IF reverse THEN "0000" ELSE "9999"

date_key(x, reverse) ==
    LET d == Get(x, "publication_date", None)
    IN  IF Truthy(d) THEN d ELSE IF reverse THEN "9999" ELSE "0000"

\* a sort that drops the reverse flag
SortItemsAscending(items, sort, order) ==
    IF sort = "cited_by_count"
    THEN StableSort(items, [i \in DOMAIN items |-> cited_key(items[i])], TRUE, FALSE)
    ELSE IF sort = "publication_date"
    THEN StableSort(items, [i \in DOMAIN items |-> date_key(items[i], FALSE)], FALSE, FALSE)
    ELSE items

\* the in-memory sort shared by search_acemap and the page
SortItems(items, sort, order) ==
    LET reverse == (order = "desc")
    IN  IF sort = "cited_by_count"
        THEN StableSort(items, [i \in DOMAIN items |-> cited_key(items[i])], TRUE, reverse)
        ELSE IF sort = "publication_date"
        THEN StableSort(items, [i \in DOMAIN items |-> date_key(items[i], reverse)],
                        FALSE, reverse)
        ELSE items

\* the end of the ranking path: sort the sample, slice the page, return
RankFinish ==
    /\ sa.pc = "rank"
    /\ LET ranked == SortItems(sa.all_results, sa.sort, sa.order)
           start_idx == (sa.page - 1) * sa.size
           end_idx == start_idx + sa.size
           final_data == [f \in DOMAIN sa.data \cup {"results"} |->
                            IF f = "results" THEN Slice(ranked, start_idx, end_idx)
                            ELSE sa.data[f]]
       IN  sa' = Returned(sa, final_data)
    /\ UNCHANGED <<corpus, requests, caller, al, rc, kg, app, kq, ip>>

\* the default path: one request with the caller's page and size
DefaultRequest ==
    /\ sa.pc = "default"
    /\ LET params == build_params(sa.search_type, sa.keyword, sa.page, sa.size,
                                  sa.order, sa.sort)
       IN  \E outcome \in {"ok"} \cup Failures :
            /\ requests' = Append(requests, Sent(sa.search_type, params, outcome))
            /\ sa' = IF outcome = "ok"
                     THEN Returned(sa, response_json(sa.search_type, params))
                     ELSE Raised(sa, outcome)
    /\ UNCHANGED <<corpus, caller, al, rc, kg, app, kq, ip>>

-----------------------------------------------------------------------------
(* Inputs of the model *)

MaxPage == 6
MaxItems == 2

Pages == 1..MaxPage
Sizes == {2, 5, 50, 100}
Orders == {"asc", "desc"}
Sorts == {None, "cited_by_count", "publication_date"}

\* work items as the API returns them; every field may be missing
W1 == [id |-> "W1", cited_by_count |-> 3, publication_date |-> "2020-05-01"]
W2 == [id |-> "W2", cited_by_count |-> 0, publication_year |-> 2018]
W3 == [id |-> "W3", publication_date |-> "2019-11-30"]
W1b == [id |-> "W1", cited_by_count |-> 7, publication_date |-> "2021-01-15"]
W4 == [id |-> "W4", cited_by_count |-> 5, publication_date |-> ""]
\* a JSON null count and a JSON null date
N1 == [id |-> "N1", cited_by_count |-> None, publication_date |-> None,
       publication_year |-> 2001]

Catalogue == {W1, W2, W3, W1b, N1}

ListsOver(items, n) == UNION {[1..k -> items] : k \in 0..n}

\* the i-th item of a large result set
BulkItem(i) ==
    ("id" :> ("W" \o ToString(i)))
    @@ (IF i % 5 = 0 THEN <<>> ELSE ("cited_by_count" :> (i % 4)))
    @@ (IF i % 3 = 0 THEN <<>>
        ELSE ("publication_date" :> ("20" \o ToString(10 + (i % 7)) \o "-01-01")))

Bulk(n) == [i \in 1..n |-> BulkItem(i)]

BulkSizes == {100, 230, 400, 500, 620}

Authors == <<[id |-> "A1"], [id |-> "A2"], [id |-> "A3"], [id |-> "A4"]>>
Institutions == <<[id |-> "I1"]>>

\* an upstream that knows one keyword
Upstream(keyword, works) ==
    [work |-> (keyword :> works), author |-> (keyword :> Authors),
     institution |-> (keyword :> Institutions)]

Idle == [pc |-> "idle"]

InitCommon ==
    /\ sa = NoCall
    /\ requests = <<>>
    /\ caller = "none"
    /\ al = Idle
    /\ rc = Idle
    /\ app = Unset
    /\ kq = Idle
    /\ ip = Idle

-----------------------------------------------------------------------------
(* One call of search_acemap *)

InitSearch ==
    /\ InitCommon
    /\ kg = <<>>
    /\ corpus \in {Upstream("rock", works) :
                     works \in ListsOver(Catalogue, MaxItems) \cup {Bulk(n) : n \in BulkSizes}}

CallSearchAcemap ==
    /\ caller = "none"
    /\ \E search_type \in ENDPOINTS \cup {"paper"}, page \in Pages, size \in Sizes,
          order \in Orders, sort \in Sorts :
        sa' = search_acemap(search_type, "rock", page, size, order, sort)
    /\ caller' = "direct"
    /\ requests' = <<>>
    /\ UNCHANGED <<corpus, al, rc, kg, app, kq, ip>>

NextSearch == CallSearchAcemap \/ RankFetch \/ RankFinish \/ DefaultRequest

SpecSearch == InitSearch /\ [][NextSearch]_vars

-----------------------------------------------------------------------------
(* Properties of the client-side ranker, under SpecSearch *)

Dated(x) == Truthy(Get(x, "publication_date", None))

\* search_acemap returned from its ranking path with this sort and order
RankedBy(sort, order) ==
    /\ sa.pc = "returned"
    /\ sa.search_type = "work"
    /\ sa.sort = sort
    /\ sa.order = order

\* in the list, no item without a date stands before an item with one
UndatedLast(items) ==
    \A i, j \in DOMAIN items : i < j => ~(~Dated(items[i]) /\ Dated(items[j]))

\* in the list, no item with a date stands before an item without one
UndatedFirst(items) ==
    \A i, j \in DOMAIN items : i < j => ~(Dated(items[i]) /\ ~Dated(items[j]))

\* the dated items of the list, in its order, never go down in date
DatesNonDecreasing(items) ==
    \A i, j \in DOMAIN items :
        (i < j /\ Dated(items[i]) /\ Dated(items[j]))
            => ~StrLess(items[j].publication_date, items[i].publication_date)

\* C6: in the ranker's date sort the items without a publication_date are
\* after every dated item when order is desc and before every dated item
\* when order is asc.
C6_UndatedOppositeEnd ==
    /\ RankedBy("publication_date", "desc") => UndatedLast(sa.result.results)
    /\ RankedBy("publication_date", "asc") => UndatedFirst(sa.result.results)

\* C7 as stated: under date asc the dated items are non-decreasing and every
\* item lacking a date is after all dated items.
C7_UndatedAtTail ==
    RankedBy("publication_date", "asc") =>
        /\ DatesNonDecreasing(sa.result.results)
        /\ UndatedLast(sa.result.results)

\* C7 amended: under date asc the dated items are non-decreasing and every
\* item lacking a date is before all dated items.
C7_UndatedAtHead ==
    RankedBy("publication_date", "asc") =>
        /\ DatesNonDecreasing(sa.result.results)
        /\ UndatedFirst(sa.result.results)

\* C7 witness: a date-asc page holding an undated item and two dated items
\* of different dates
C7_Witness ==
    /\ RankedBy("publication_date", "asc")
    /\ \E i, j, k \in DOMAIN sa.result.results :
        /\ ~Dated(sa.result.results[i])
        /\ Dated(sa.result.results[j]) /\ Dated(sa.result.results[k])
        /\ sa.result.results[j].publication_date # sa.result.results[k].publication_date

\* C8: the ranker's target is min(max(page*size, 200), 500) and its sample
\* never holds more than 500 items at any point of the paging loop.
C8_SampleBounded ==
    sa.pc \in {"loop", "rank"} =>
        /\ sa.target_count = Min(Max(sa.page * sa.size, 200), 500)
        /\ Len(sa.all_results) <= 500

\* C8 witness: a call asking beyond 500 items whose sample reached 500
C8_Witness ==
    /\ sa.pc = "rank"
    /\ sa.page * sa.size > 500
    /\ Len(sa.all_results) = 500

\* the requests of the running call, when it runs the ranking path
RankingRequests ==
    IF sa.search_type = "work" /\ Truthy(sa.sort) THEN requests ELSE <<>>

\* C9 as stated: every upstream request of the ranking path carries neither
\* a sort nor an order parameter.
C9_NoSortNoOrder ==
    \A i \in DOMAIN RankingRequests :
        /\ "sort" \notin DOMAIN RankingRequests[i].params
        /\ "order" \notin DOMAIN RankingRequests[i].params

\* C9 amended: every upstream request of the ranking path carries no sort
\* parameter, and carries order=desc whatever order the caller asked for.
C9_NoSortOrderDesc ==
    \A i \in DOMAIN RankingRequests :
        /\ "sort" \notin DOMAIN RankingRequests[i].params
        /\ Get(RankingRequests[i].params, "order", None) = "desc"

\* C9 witness: a ranking call asked for asc has sent two requests
C9_Witness ==
    /\ sa.order = "asc"
    /\ Len(RankingRequests) >= 2

\* the fair paging loop: requests.get has a timeout, so every request of the
\* loop comes back with a response or a failure
SpecSearchLive == SpecSearch /\ WF_vars(RankFetch)

\* the page the i-th request of the log asked for, as the upstream holds it
PageAsked(i) == response_json(requests[i].endpoint, requests[i].params).results

\* the items the first i requests of the log brought, had all succeeded
RECURSIVE Accumulated(_)
Accumulated(i) == IF i = 0 THEN 0 ELSE Accumulated(i - 1) + Len(PageAsked(i))

\* after the i-th page the paging loop has a reason to stop
StopsAfter(i) ==
    \/ Len(PageAsked(i)) < 100
    \/ Accumulated(i) >= Min(Max(sa.page * sa.size, 200), 500)

PagingInOrder ==
    LET n == Len(RankingRequests)
    IN  /\ \A i \in 1..n :
            /\ RankingRequests[i].params.page = i
            /\ RankingRequests[i].params.size = 100
        /\ \A i \in 2..n :
            /\ RankingRequests[i - 1].outcome = "ok"
            /\ Len(PageAsked(i - 1)) = 100
            /\ ~StopsAfter(i - 1)
        /\ (n >= 1 /\ sa.pc = "loop") => ~StopsAfter(n)
        /\ (n >= 1 /\ sa.pc \in {"rank", "returned"}) => StopsAfter(n)
        /\ n <= 5

\* C13: the paging loop asks for pages 1, 2, 3, ... at size 100, asks for the
\* next page only after a full page that left the sample below the target,
\* stops at the first page that is empty, short or fills the target, never
\* sends more than 5 requests, and every run of the loop comes to its end.
C13_PagingSequential ==
    /\ []PagingInOrder
    /\ [](sa.pc = "loop" => <>(sa.pc \in {"rank", "raised"}))

\* C13 witness: a ranking call that stopped after five full pages
C13_Witness ==
    /\ sa.pc = "rank"
    /\ Len(RankingRequests) = 5
    /\ Len(sa.all_results) = 500

\* C14: a failed request of the paging loop is the last request of the call;
\* the call has raised that error and holds no result and no gathered page.
C14_FailureAborts ==
    \A i \in DOMAIN RankingRequests :
        RankingRequests[i].outcome # "ok" =>
            /\ i = Len(RankingRequests)
            /\ sa.pc = "raised"
            /\ sa.error = RankingRequests[i].outcome
            /\ sa.result = Unset
            /\ sa.all_results = <<>>
            /\ ~ENABLED (RankFetch \/ RankFinish \/ DefaultRequest)

\* C14 witness: the third request of a ranking call failed after two full
\* pages had been gathered
C14_Witness ==
    /\ Len(RankingRequests) = 3
    /\ RankingRequests[3].outcome # "ok"
    /\ Len(PageAsked(1)) = 100 /\ Len(PageAsked(2)) = 100
    /\ sa.pc = "raised"

-----------------------------------------------------------------------------
(* search.py: search_all *)

\* a stand-in that forgets the empty result list
ErrorStandInBare(message) == [error |-> message]

\* what an except clause of search_all stores for a failed channel
ErrorStandIn(message) == [error |-> message, results |-> <<>>]

\* the value a try block of search_all leaves in results[channel]
ChannelValue(a) == IF a.pc = "raised" THEN ErrorStandIn(a.error) ELSE a.result

Finished(a) == a.pc \in {"returned", "raised"}

\* search_all is entered and calls search_acemap for the work channel
CallSearchAll ==
    /\ caller = "none"
    /\ \E sort \in Sorts, order \in Orders :
        /\ al' = [pc |-> "work", keyword |-> "rock", sort |-> sort, order |-> order,
                  results |-> <<>>]
        /\ sa' = search_acemap("work", "rock", 1, 5, order, sort)
    /\ caller' = "search_all"
    /\ requests' = <<>>
    /\ UNCHANGED <<corpus, rc, kg, app, kq, ip>>

\* the work channel settles; the author channel is called
AllWorkDone ==
    /\ caller = "search_all"
    /\ al.pc = "work"
    /\ Finished(sa)
    /\ al' = [al EXCEPT !.pc = "author",
                        !.results = al.results @@ ("work" :> ChannelValue(sa))]
    /\ sa' = search_acemap("author", al.keyword, 1, 3, "desc", None)
    /\ UNCHANGED <<corpus, requests, caller, rc, kg, app, kq, ip>>

\* the author channel settles; the institution channel is called
AllAuthorDone ==
    /\ caller = "search_all"
    /\ al.pc = "author"
    /\ Finished(sa)
    /\ al' = [al EXCEPT !.pc = "institution",
                        !.results = al.results @@ ("author" :> ChannelValue(sa))]
    /\ sa' = search_acemap("institution", al.keyword, 1, 3, "desc", None)
    /\ UNCHANGED <<corpus, requests, caller, rc, kg, app, kq, ip>>

\* the institution channel settles; search_all returns results
AllInstitutionDone ==
    /\ caller = "search_all"
    /\ al.pc = "institution"
    /\ Finished(sa)
    /\ al' = [al EXCEPT !.pc = "returned",
                        !.results = al.results @@ ("institution" :> ChannelValue(sa))]
    /\ sa' = NoCall
    /\ UNCHANGED <<corpus, requests, caller, rc, kg, app, kq, ip>>

InitAll ==
    /\ InitCommon
    /\ kg = <<>>
    /\ corpus \in {Upstream("rock", works) :
                     works \in ListsOver(Catalogue, MaxItems) \cup {Bulk(230)}}

NextAll ==
    \/ CallSearchAll
    \/ AllWorkDone
    \/ AllAuthorDone
    \/ AllInstitutionDone
    \/ RankFetch
    \/ RankFinish
    \/ DefaultRequest

SpecAll == InitAll /\ [][NextAll]_vars

-----------------------------------------------------------------------------
(* Properties of search_all, under SpecAll *)

\* the requests sent to one endpoint
ChannelRequests(channel) == SelectSeq(requests, LAMBDA r : r.endpoint = channel)

ChannelFailed(channel) ==
    \E i \in DOMAIN ChannelRequests(channel) : ChannelRequests(channel)[i].outcome # "ok"

\* the message of the failure of a channel
ChannelError(channel) ==
    ChannelRequests(channel)[Len(ChannelRequests(channel))].outcome

\* what a call of search_acemap for page 1 must return when none of its
\* requests fails: the first size matches, or, for a ranked work search, the
\* first size items of the sorted sample that its requests drew
ExpectedResponse(search_type, keyword, size, sort, order, sent) ==
    LET matches == Lookup(search_type, keyword)
        sample == Slice(matches, 0, max_page_size * sent)
        listed == IF search_type = "work" /\ Truthy(sort)
                  THEN SortItems(sample, sort, order)
                  ELSE matches
    IN  [results |-> Slice(listed, 0, size), meta |-> [count |-> Len(matches)]]

OwnResponse(channel, size) ==
    ExpectedResponse(channel, al.keyword, size, al.sort, al.order,
                     Len(ChannelRequests(channel)))

ChannelSize(channel) == IF channel = "work" THEN 5 ELSE 3

\* C1: search_all never raises; its envelope has exactly the keys work,
\* author and institution; a failed channel is {error: message, results: []}
\* and a succeeded channel holds its own upstream response, whatever happened
\* to the other channels.
C1_ChannelsIsolated ==
    /\ (caller = "search_all" /\ al.pc # "returned" /\ Finished(sa))
            => ENABLED (AllWorkDone \/ AllAuthorDone \/ AllInstitutionDone)
    /\ (caller = "search_all" /\ al.pc = "returned") =>
        /\ DOMAIN al.results = {"work", "author", "institution"}
        /\ \A channel \in ENDPOINTS :
            al.results[channel] =
                IF ChannelFailed(channel)
                THEN [error |-> ChannelError(channel), results |-> <<>>]
                ELSE OwnResponse(channel, ChannelSize(channel))

\* C1 witness: search_all returned with the institution channel failed and
\* non-empty work and author results
C1_Witness ==
    /\ caller = "search_all"
    /\ al.pc = "returned"
    /\ "error" \in DOMAIN al.results["institution"]
    /\ "error" \notin DOMAIN al.results["work"]
    /\ "error" \notin DOMAIN al.results["author"]
    /\ al.results["work"].results # <<>>
    /\ al.results["author"].results # <<>>

-----------------------------------------------------------------------------
(* recall.py: KGManager.find_related_concepts *)

\* "if keyword in counter: del counter[keyword]", on the keys of the counter
WithoutKeyword(names, keyword) == SelectSeq(names, LAMBDA c : c # keyword)

\* df[mask][column].tolist(); mask[i] says whether row i is kept
Column(df, mask, column) ==
    LET kept == SelectSeq([i \in DOMAIN df |-> i], LAMBDA i : mask[i])
    IN  [j \in DOMAIN kept |-> df[kept[j]][column]]

find_related_concepts(df, query, top_k) ==
    IF df = <<>> THEN <<>>
    ELSE
    LET keyword == Strip(Lower(query))
        mask_sub == [i \in DOMAIN df |-> Lower(df[i].subject) = keyword]
        mask_obj == [i \in DOMAIN df |-> Lower(df[i].object) = keyword]
        exact == Column(df, mask_sub, "object") \o Column(df, mask_obj, "subject")
        mask_sub_contains == [i \in DOMAIN df |-> Contains(Lower(df[i].subject), keyword)]
        mask_obj_contains == [i \in DOMAIN df |-> Contains(Lower(df[i].object), keyword)]
        all_related ==
            IF Len(exact) < top_k
            THEN exact \o Column(df, mask_sub_contains, "object")
                       \o Column(df, mask_obj_contains, "subject")
            ELSE exact
        count(c) == Cardinality({i \in DOMAIN all_related : all_related[i] = c})
        counter == WithoutKeyword(Distinct(all_related), keyword)
        most_common ==
            StableSort(counter, [i \in DOMAIN counter |-> count(counter[i])], TRUE, TRUE)
    IN  SubSeq(most_common, 1, Min(top_k, Len(most_common)))

MaxTriples == 2
MaxTopK == 3

Concepts == {"rock", "Rock", "bedrock", "mineral"}
Queries == {"rock", "Rock", " ROCK ", "mineral"}

Triples ==
    {[subject |-> s, relation |-> "relates_to", object |-> o, paperid |-> "p1"] :
        s \in Concepts, o \in Concepts}

InitKG ==
    /\ InitCommon
    /\ corpus = Upstream("rock", <<>>)
    /\ kg \in ListsOver(Triples, MaxTriples)

\* one call of find_related_concepts on the loaded table
CallFindRelated ==
    /\ kq.pc = "idle"
    /\ \E query \in Queries, top_k \in 1..MaxTopK :
        kq' = [pc |-> "returned", keyword |-> query, top_k |-> top_k,
               top_concepts |-> find_related_concepts(kg, query, top_k)]
    /\ UNCHANGED <<corpus, sa, requests, caller, al, rc, kg, app, ip>>

NextKG == CallFindRelated

SpecKG == InitKG /\ [][NextKG]_vars

\* C4: find_related_concepts returns at most top_k strings and none of them
\* is the query keyword itself.
C4_AtMostKNeverSelf ==
    kq.pc = "returned" =>
        /\ Len(kq.top_concepts) <= kq.top_k
        /\ \A i \in DOMAIN kq.top_concepts : kq.top_concepts[i] # kq.keyword

-----------------------------------------------------------------------------
(* recall.py: search_with_recall, and the re-sort of app.py *)

\* item["_source_concept"] = concept
Tagged(item, concept) ==
    [f \in DOMAIN item \cup {"_source_concept"} |->
        IF f = "_source_concept" THEN concept ELSE item[f]]

\* the items one concept adds to expanded_results
ConceptItems(a, concept) ==
    IF a.pc = "raised" THEN <<>>
    ELSE LET items == Get(a.result, "results", <<>>)
         IN  [i \in DOMAIN items |-> Tagged(items[i], concept)]

\* the loop "for item in expanded_results" of the merge
RECURSIVE MergeInto(_, _, _)
MergeInto(final_list, seen_ids, expanded) ==
    IF expanded = <<>> THEN final_list
    ELSE LET item == Head(expanded)
             id == Get(item, "id", None)
         IN  IF id \notin seen_ids
             THEN MergeInto(Append(final_list, item), seen_ids \cup {id}, Tail(expanded))
             ELSE MergeInto(final_list, seen_ids, Tail(expanded))

\* step 4 of search_with_recall and its return value
Merged(r, expanded_results) ==
    LET final_list == Get(r.original_results, "results", <<>>)
        seen_ids == {Get(final_list[i], "id", None) : i \in DOMAIN final_list}
        merged == MergeInto(final_list, seen_ids, expanded_results)
    IN  [original_keyword |-> r.keyword, related_concepts |-> r.related_concepts,
         results |-> merged, total_count |-> Len(merged)]

\* a concept loop that gives up at the first concept whose search fails
NextConceptUnlessFailed(r, a) ==
    IF a.pc = "raised" THEN Len(r.related_concepts) + 1 ELSE r.idx + 1

\* the concept the loop "for concept in related_concepts" takes next
NextConcept(r, a) == r.idx + 1

\* the loop goes on with concept number idx, or the function merges and returns
Proceed(r, idx, expanded_results) ==
    IF idx <= Len(r.related_concepts)
    THEN [r EXCEPT !.pc = "concept", !.idx = idx, !.expanded_results = expanded_results]
    ELSE [r EXCEPT !.pc = "returned", !.idx = idx, !.expanded_results = expanded_results,
                   !.out = Merged(r, expanded_results)]

\* the search_acemap call the loop makes for concept number idx, if any
ConceptCall(r, idx) ==
    IF idx <= Len(r.related_concepts)
    THEN search_acemap("work", r.related_concepts[idx], 1, 2, r.order, r.sort)
    ELSE NoCall

\* search_with_recall is entered and searches the original keyword
CallSearchWithRecall ==
    /\ caller = "none"
    /\ \E sort \in Sorts, order \in Orders :
        /\ rc' = [pc |-> "original", keyword |-> "rock", sort |-> sort, order |-> order,
                  original_results |-> Unset, related_concepts |-> <<>>,
                  expanded_results |-> <<>>, idx |-> 0, out |-> Unset]
        /\ sa' = search_acemap("work", "rock", 1, 5, order, sort)
    /\ caller' = "recall"
    /\ requests' = <<>>
    /\ UNCHANGED <<corpus, al, kg, app, kq, ip>>

\* the original search settles; the related concepts are looked up and the
\* first of them is searched
RecallOriginalDone ==
    /\ caller = "recall"
    /\ rc.pc = "original"
    /\ Finished(sa)
    /\ LET found == [rc EXCEPT
                !.original_results =
                    IF sa.pc = "raised" THEN [results |-> <<>>] ELSE sa.result,
                !.related_concepts = find_related_concepts(kg, rc.keyword, 3)]
       IN  /\ rc' = Proceed(found, 1, <<>>)
           /\ sa' = ConceptCall(found, 1)
    /\ UNCHANGED <<corpus, requests, caller, al, kg, app, kq, ip>>

\* the search of a concept settles; the next concept is searched, or the
\* results are merged and returned
RecallConceptDone ==
    /\ caller = "recall"
    /\ rc.pc = "concept"
    /\ Finished(sa)
    /\ rc' = Proceed(rc, NextConcept(rc, sa),
                     rc.expanded_results \o ConceptItems(sa, rc.related_concepts[rc.idx]))
    /\ sa' = ConceptCall(rc, NextConcept(rc, sa))
    /\ UNCHANGED <<corpus, requests, caller, al, kg, app, kq, ip>>

\* app.py sorts the list search_with_recall returned and makes it the work
\* channel of the page
AppResort ==
    /\ caller = "recall"
    /\ rc.pc = "returned"
    /\ app = Unset
    /\ LET enhanced_work_items ==
            IF Truthy(rc.sort) THEN SortItems(rc.out.results, rc.sort, rc.order)
            ELSE rc.out.results
       IN  app' = [results |-> enhanced_work_items,
                   meta |-> [count |-> Len(enhanced_work_items)]]
    /\ UNCHANGED <<corpus, sa, requests, caller, al, rc, kg, kq, ip>>

Triple(s, o) == [subject |-> s, relation |-> "relates_to", object |-> o, paperid |-> "p1"]

RecallTables ==
    {<<>>, <<Triple("rock", "mineral")>>,
     <<Triple("rock", "mineral"), Triple("bedrock", "rock")>>}

InitRecall ==
    /\ InitCommon
    /\ kg \in RecallTables
    /\ \E rock \in ListsOver({W1, W2, W1b}, MaxItems),
          mineral \in {<<>>, <<N1, W1>>, <<W3, W4>>},
          bedrock \in {<<W4>>, <<W2, W3>>} :
        corpus = [work |-> ("rock" :> rock) @@ ("mineral" :> mineral)
                            @@ ("bedrock" :> bedrock),
                  author |-> <<>>, institution |-> <<>>]

NextRecall ==
    \/ CallSearchWithRecall
    \/ RecallOriginalDone
    \/ RecallConceptDone
    \/ AppResort
    \/ RankFetch
    \/ RankFinish
    \/ DefaultRequest

SpecRecall == InitRecall /\ [][NextRecall]_vars

-----------------------------------------------------------------------------
(* Properties of search_with_recall, under SpecRecall *)

\* the positions in the log where a call of search_acemap sent its first request
CallStarts == {i \in DOMAIN requests : requests[i].params.page = 1}

\* the requests of the k-th call of search_acemap
CallRequests(k) ==
    LET first == CHOOSE i \in CallStarts : Cardinality({j \in CallStarts : j < i}) = k - 1
        later == {j \in CallStarts : j > first}
        last == IF later = {} THEN Len(requests)
                ELSE (CHOOSE j \in later : \A h \in later : j <= h) - 1
    IN  SubSeq(requests, first, last)

CallFailed(k) == CallRequests(k)[Len(CallRequests(k))].outcome # "ok"

\* the items the k-th call returned to search_with_recall
CallItems(k, size) ==
    ExpectedResponse("work", CallRequests(k)[1].params.keyword, size, rc.sort, rc.order,
                     Len(CallRequests(k))).results

IsTagged(item) == "_source_concept" \in DOMAIN item

IdsOf(items) == {Get(items[i], "id", None) : i \in DOMAIN items}

\* C2: search_with_recall never propagates a remote-search failure: one is
\* raised only inside the try block of the original search or of a concept.  The
\* original keyword and then every related concept are searched, whichever
\* of these searches fail; a failed original search leaves no original item;
\* a failed concept contributes no item; the items of every concept whose
\* search succeeds appear in the result (by id).
C2_FailuresIsolated ==
    /\ (caller = "recall" /\ sa.pc = "raised") => rc.pc \in {"original", "concept"}
    /\ (caller = "recall" /\ rc.pc = "returned") =>
        /\ Cardinality(CallStarts) = 1 + Len(rc.related_concepts)
        /\ CallRequests(1)[1].params.keyword = rc.keyword
        /\ SelectSeq(rc.out.results, LAMBDA x : ~IsTagged(x))
                = IF CallFailed(1) THEN <<>> ELSE CallItems(1, 5)
        /\ \A k \in DOMAIN rc.related_concepts :
            /\ CallRequests(k + 1)[1].params.keyword = rc.related_concepts[k]
            /\ CallFailed(k + 1) =>
                    \A i \in DOMAIN rc.out.results :
                        Get(rc.out.results[i], "_source_concept", None)
                            # rc.related_concepts[k]
            /\ ~CallFailed(k + 1) =>
                    IdsOf(CallItems(k + 1, 2)) \subseteq IdsOf(rc.out.results)

\* C2 witness: the original search and the first concept's search failed,
\* and the result holds an item of the second concept
C2_Witness ==
    /\ caller = "recall"
    /\ rc.pc = "returned"
    /\ Len(rc.related_concepts) = 2
    /\ CallFailed(1)
    /\ CallFailed(2)
    /\ \E i \in DOMAIN rc.out.results :
            Get(rc.out.results[i], "_source_concept", None) = rc.related_concepts[2]

\* C3: the list search_with_recall returns holds no two items with the same
\* id, and where an id is both in the original results and in a concept's
\* results, the item kept is the original one.
C3_UniqueIds ==
    (caller = "recall" /\ rc.pc = "returned") =>
        /\ \A i, j \in DOMAIN rc.out.results :
            i # j => Get(rc.out.results[i], "id", None) # Get(rc.out.results[j], "id", None)
        /\ \A i \in DOMAIN rc.out.results :
            Get(rc.out.results[i], "id", None) \in IdsOf(Get(rc.original_results, "results", <<>>))
                => ~IsTagged(rc.out.results[i])

NonIncreasingCitations(items) ==
    \A i, j \in DOMAIN items :
        i < j => OrZero(Get(items[i], "cited_by_count", 0))
                    >= OrZero(Get(items[j], "cited_by_count", 0))

\* C5 as stated: under sort cited_by_count, order desc, the list returned by
\* search_with_recall is non-increasing in cited_by_count (missing as 0).
C5_RecallReturnsSorted ==
    (caller = "recall" /\ rc.pc = "returned" /\ rc.sort = "cited_by_count"
        /\ rc.order = "desc") => NonIncreasingCitations(rc.out.results)

\* C5 amended: search_with_recall returns the merged list as merged; the
\* page (app.py) re-sorts it, and under sort cited_by_count, order desc, the
\* work list of the page holds the items search_with_recall returned, in
\* non-increasing order of cited_by_count (missing as 0).
C5_PageSorted ==
    (caller = "recall" /\ app # Unset /\ rc.sort = "cited_by_count" /\ rc.order = "desc") =>
        /\ NonIncreasingCitations(app.results)
        /\ Len(app.results) = Len(rc.out.results)
        /\ \A i \in DOMAIN rc.out.results :
            \E j \in DOMAIN app.results : app.results[j] = rc.out.results[i]

\* C5 witness: the page re-sorted a merged list of original and concept
\* items that search_with_recall had returned out of order
C5_Witness ==
    /\ caller = "recall"
    /\ app # Unset
    /\ rc.sort = "cited_by_count"
    /\ rc.order = "desc"
    /\ ~NonIncreasingCitations(rc.out.results)
    /\ \E i, j \in DOMAIN app.results : IsTagged(app.results[i]) /\ ~IsTagged(app.results[j])

-----------------------------------------------------------------------------
(* intent.py: IntentParser *)

time_keywords ==
    <<"recent", "latest", "new", "newest", "current", "latest research", "recent papers">>
citation_keywords ==
    <<"popular", "cited", "best", "top", "famous", "impactful", "highly cited", "most cited">>
author_keywords ==
    <<"author", "researcher", "scientist", "who wrote", "written by", "people">>
inst_keywords ==
    <<"institution", "university", "lab", "laboratory", "center", "college", "school">>
stop_phrases ==
    <<"research on", "papers about", "results for", "show me", "find", "search for",
      "articles on", "documents about", "information on", "tell me about", "papers on",
      "results of", "list of">>

\* the characters \w of the re module matches
WordChars ==
    {CharAt(CodePoints, i) : i \in 1..Len(CodePoints)} \ {" ", "!", ",", "-", ".", "?"}

IsWordChar(c) == c \in WordChars

\* \b at the gap before position i of s
AtBoundary(s, i) ==
    LET before == i > 1 /\ IsWordChar(CharAt(s, i - 1))
        after == i <= Len(s) /\ IsWordChar(CharAt(s, i))
    IN  before # after

\* the pattern matches s at position i, ignoring case (folded is s in lower
\* case, pattern is in lower case); between \b when bounded
MatchesAt(s, folded, pattern, bounded, i) ==
    /\ i + Len(pattern) - 1 <= Len(s)
    /\ SubSeq(folded, i, i + Len(pattern) - 1) = pattern
    /\ bounded => (AtBoundary(s, i) /\ AtBoundary(s, i + Len(pattern)))

\* pattern.sub("", s) from position i on: leftmost matches, never overlapping
RECURSIVE SubFrom(_, _, _, _, _)
SubFrom(s, folded, pattern, bounded, i) ==
    IF i > Len(s) THEN ""
    ELSE IF MatchesAt(s, folded, pattern, bounded, i)
    THEN SubFrom(s, folded, pattern, bounded, i + Len(pattern))
    ELSE CharAt(s, i) \o SubFrom(s, folded, pattern, bounded, i + 1)

\* re.compile(re.escape(word), re.IGNORECASE).sub("", s), with \b around the
\* word when bounded
Sub(s, word, bounded) == SubFrom(s, Lower(s), Lower(word), bounded, 1)

\* the loop "for phrase in ...: clean_query = pattern.sub('', clean_query)"
RECURSIVE RemoveEach(_, _, _)
RemoveEach(s, patterns, bounded) ==
    IF patterns = <<>> THEN s
    ELSE RemoveEach(Sub(s, Head(patterns), bounded), Tail(patterns), bounded)

\* re.sub(r'[^\w\s]', ' ', s)
RECURSIVE Unpunctuated(_)
Unpunctuated(s) ==
    IF s = "" THEN ""
    ELSE (IF IsWordChar(CharAt(s, 1)) \/ IsSpace(CharAt(s, 1)) THEN CharAt(s, 1) ELSE " ")
            \o Unpunctuated(Tail(s))

\* a run of spaces becomes one space
RECURSIVE Squeezed(_)
Squeezed(s) ==
    IF Len(s) <= 1 THEN s
    ELSE IF IsSpace(CharAt(s, 1)) /\ IsSpace(CharAt(s, 2)) THEN Squeezed(Tail(s))
    ELSE CharAt(s, 1) \o Squeezed(Tail(s))

\* " ".join(s.split())
JoinSplit(s) == Squeezed(Strip(s))

\* any(k in query_lower for k in keywords)
AnyIn(keywords, query_lower) ==
    \E i \in DOMAIN keywords : Contains(query_lower, keywords[i])

SortIntent(query_lower) ==
    IF AnyIn(citation_keywords, query_lower) THEN "citation"
    ELSE IF AnyIn(time_keywords, query_lower) THEN "date"
    ELSE None

TypeIntent(query_lower) ==
    IF AnyIn(author_keywords, query_lower) THEN "author"
    ELSE IF AnyIn(inst_keywords, query_lower) THEN "institution"
    ELSE None

\* intent["keyword"] before the fallback to the original query
CleanKeyword(query) ==
    LET query_lower == Lower(query)
        sort == SortIntent(query_lower)
        type == TypeIntent(query_lower)
        words_to_remove ==
            (IF sort = "date" THEN time_keywords ELSE <<>>)
            \o (IF sort = "citation" THEN citation_keywords ELSE <<>>)
            \o (IF type = "author" THEN author_keywords ELSE <<>>)
            \o (IF type = "institution" THEN inst_keywords ELSE <<>>)
        unstopped == RemoveEach(query, stop_phrases, FALSE)
        clean_query == RemoveEach(unstopped, words_to_remove, TRUE)
    IN  JoinSplit(Unpunctuated(clean_query))

\* a parser without the fallback to the original query
KeywordNoFallback(query) == CleanKeyword(query)

\* the keyword parse returns for a non-empty query
Keyword(query) ==
    LET cleaned == CleanKeyword(query) IN IF cleaned = "" THEN query ELSE cleaned

parse(query) ==
    IF query = ""
    THEN [original_query |-> "", keyword |-> "", sort |-> None, type |-> None]
    ELSE [original_query |-> query, keyword |-> Keyword(query),
          sort |-> SortIntent(Lower(query)), type |-> TypeIntent(Lower(query))]

MaxFragments == 3

Fragments == {" ", "!", "find", "top", "most cited", "New", "lab", "rock", "s", "author"}

RECURSIVE Joined(_)
Joined(parts) == IF parts = <<>> THEN "" ELSE Head(parts) \o Joined(Tail(parts))

MaxWords == 3

Words == {"top", "New", "rock", "most cited", "papers", "author", "lab"}

RECURSIVE JoinedBy(_, _)
JoinedBy(parts, sep) ==
    IF Len(parts) <= 1 THEN Joined(parts)
    ELSE Head(parts) \o sep \o JoinedBy(Tail(parts), sep)

\* queries glued from fragments, and queries of words separated by a space
InputQueries ==
    {Joined(parts) : parts \in ListsOver(Fragments, MaxFragments)}
        \cup {JoinedBy(parts, " ") : parts \in ListsOver(Words, MaxWords)}

InitIntent ==
    /\ InitCommon
    /\ kg = <<>>
    /\ corpus = Upstream("rock", <<>>)

\* one call of IntentParser.parse
CallParse ==
    /\ ip.pc = "idle"
    /\ \E query \in InputQueries :
        ip' = [pc |-> "returned", query |-> query, intent |-> parse(query)]
    /\ UNCHANGED <<corpus, sa, requests, caller, al, rc, kg, app, kq>>

\* parse called on the keyword the first call returned
CallParseKeyword ==
    /\ ip.pc = "returned"
    /\ ip' = [pc |-> "reparsed", query |-> ip.query, intent |-> ip.intent,
              again |-> parse(ip.intent.keyword)]
    /\ UNCHANGED <<corpus, sa, requests, caller, al, rc, kg, app, kq>>

NextIntent == CallParse \/ CallParseKeyword

SpecIntent == InitIntent /\ [][NextIntent]_vars

\* C10: for every non-empty query parse returns a non-empty keyword, and the
\* keyword is the untouched query whenever the cleansing leaves nothing.
C10_KeywordNonEmpty ==
    (ip.pc = "returned" /\ ip.query # "") =>
        /\ ip.intent.keyword # ""
        /\ CleanKeyword(ip.query) = "" => ip.intent.keyword = ip.query

\* C10 witness: a query of a stop phrase, an intent word and punctuation,
\* which the cleansing empties
C10_Witness ==
    /\ ip.pc = "returned"
    /\ Len(ip.query) > 4
    /\ CleanKeyword(ip.query) = ""
    /\ ip.intent.keyword = ip.query

\* s.split(): the words of s between runs of whitespace
RECURSIVE SplitFrom(_)
SplitFrom(s) ==
    IF s = "" THEN <<>>
    ELSE LET spaces == {i \in 1..Len(s) : IsSpace(CharAt(s, i))}
             stop == IF spaces = {} THEN Len(s) + 1
                     ELSE CHOOSE i \in spaces : \A j \in spaces : i <= j
         IN  <<SubSeq(s, 1, stop - 1)>> \o SplitFrom(SubSeq(s, stop + 1, Len(s)))

split(s) == SplitFrom(JoinSplit(s))

\* the words of the sort and type intent phrases
IntentPhrases == time_keywords \o citation_keywords \o author_keywords \o inst_keywords

IntentWords ==
    UNION {{split(IntentPhrases[i])[j] : j \in DOMAIN split(IntentPhrases[i])} :
             i \in DOMAIN IntentPhrases}

\* the query is one or more words, each a word of an intent phrase
IntentOnly(query) ==
    LET words == split(Lower(query))
    IN  words # <<>> /\ \A i \in DOMAIN words : words[i] \in IntentWords

\* C11: for every query that consists only of intent-phrase words parse
\* returns the original query unchanged as the keyword.
C11_IntentOnlyFallsBack ==
    (ip.pc = "returned" /\ IntentOnly(ip.query)) => ip.intent.keyword = ip.query

\* C12: parsing the keyword parse returned gives the same keyword again.
C12_KeywordIdempotent ==
    ip.pc = "reparsed" => ip.again.keyword = ip.intent.keyword
====
